---- MODULE Spec2Model ----
(***************************************************************************)
(* State-machine model of src/server.js: a Socket.IO server over a         *)
(* MongoDB store (collections User and Message).                           *)
(*                                                                         *)
(* Every `await` of a store operation is one atomic step of the store;     *)
(* the code that follows it (up to the next await) runs in a later step,   *)
(* so handlers of the same or of different connections interleave at the   *)
(* awaits, as they do on the Node event loop.                              *)
(*                                                                         *)
(* Strings the code takes apart (display names, which are trimmed, and     *)
(* item ids, which are printed numbers) are sequences of chunks: a chunk   *)
(* is one whitespace character or a piece of text without whitespace at    *)
(* its ends.  Other strings are TLA+ strings.                              *)
(***************************************************************************)
EXTENDS Integers, Sequences, FiniteSets

\* ---------------------------------------------------------------- bounds
\* Number of sockets that may connect.
NumConns == 2
\* Number of client events (other than connect / disconnect) handled.
MaxOps == 3
\* Number of event handlers in flight at once.
MaxInFlight == 2
\* Largest value Date.now() takes (the clock starts at 0).
MaxClock == 1
\* Number of store operations that fail for a reason outside the program.
MaxFaults == 1
\* Number of client events handled where the roster's progress is followed.
MaxRosterOps == 1

Conns == 1..NumConns
\* Slot c (c \in Conns) holds connection c's initial-snapshot task; the
\* other slots hold event handlers.
HandlerSlots == (NumConns + 1)..(NumConns + MaxInFlight)
Slots == Conns \cup HandlerSlots

\* ------------------------------------------------------------ input sets
\* undefined, null or the empty string: all falsy in `id && password`.
Falsy == ""
HandshakeIds == {"betu", "puchu", "eve", Falsy}
HandshakePasswords == {"bubu", "shona", Falsy}
\* The text of addDare / addTruth payloads.
Texts == {"t1"}
\* The text of addDare / addTruth payloads where two owners' items must differ.
OwnerTexts == {"t1", "t2"}
\* The newText of editItem payloads.
NewTexts == {"t3"}
Bodies == {"hi"}
\* The `type` of deleteItem / editItem payloads.
Types == {"dare", "truth", "other"}
\* Raw editUsername inputs: blank, whitespace only, padded, plain.
RawNames == {<<>>, <<" ">>, <<" ", "x", " ">>, <<"y">>}

\* ------------------------------------------------------------- constants
VALID_USERS == [betu |-> "bubu", puchu |-> "shona"]

Sentinel == "No items from your partner yet!"

NoUser == [id |-> "", username |-> <<>>]

NoDoc == [id |-> "", password |-> "", username |-> <<>>, dares |-> <<>>, truths |-> <<>>]

\* ---------------------------------------------------------- pure helpers
IsSpace(ch) == ch = " "

\* String.prototype.trim
RECURSIVE TrimLeft(_)
TrimLeft(s) == IF s # <<>> /\ IsSpace(Head(s)) THEN TrimLeft(Tail(s)) ELSE s

RECURSIVE TrimRight(_)
TrimRight(s) ==
    IF s # <<>> /\ IsSpace(s[Len(s)]) THEN TrimRight(SubSeq(s, 1, Len(s) - 1)) ELSE s

Trim(s) == TrimRight(TrimLeft(s))

Digits == <<"0", "1", "2", "3", "4", "5", "6", "7", "8", "9">>

\* Number.prototype.toString (base 10, non-negative integers)
RECURSIVE ToString(_)
ToString(n) ==
    IF n < 10 THEN <<Digits[n + 1]>>
    ELSE ToString(n \div 10) \o <<Digits[(n % 10) + 1]>>

\* The `id` of deleteItem / editItem payloads: the ids the clock can produce.
ItemIds == {ToString(n) : n \in 0..MaxClock}

\* `id === 'betu' ? 'shona (shri)' : (id === 'puchu' ? 'betuu (moni)' : id)`
DefaultUsername(id) ==
    IF id = "betu" THEN <<"shona (shri)">>
    ELSE IF id = "puchu" THEN <<"betuu (moni)">>
    ELSE <<id>>

\* `id && password && VALID_USERS[id] === password`
CredentialsOk(id, password) ==
    /\ id # Falsy
    /\ password # Falsy
    /\ id \in DOMAIN VALID_USERS
    /\ VALID_USERS[id] = password

\* Positions of the documents of collection `coll` whose id is `id`.
Matching(coll, id) == {i \in DOMAIN coll : coll[i].id = id}

Min(S) == CHOOSE x \in S : \A y \in S : x <= y

\* User.findOne({ id }): the first matching document, or null (NoDoc).
FindOne(coll, id) ==
    IF Matching(coll, id) = {} THEN NoDoc ELSE coll[Min(Matching(coll, id))]

\* The document User.create builds.
NewUserDoc(id, password, username) ==
    [id |-> id, password |-> password, username |-> username,
     dares |-> <<>>, truths |-> <<>>]

\* ------------------------------------------------------------------ state
VARIABLES
    users,        \* collection User, in insertion order
    messages,     \* collection Message, in insertion order
    now,          \* the clock Date.now() / new Date() reads
    ensure,       \* ensureDefaultUsers(): [pc, i]
    conn,         \* per socket: [st, hs, user]
    tasks,        \* per slot: an async function in flight, or NoTask
    bcastPending, \* broadcastUserList() calls whose User.find has not run
    bcastReady,   \* rosters read by broadcastUserList(), not yet emitted
    unhandled,    \* a promise was rejected with nothing to catch it
    cleared,      \* history: [st, n]; st is "no", or how far a clearChat
                  \* got ("deleted", "done") with no message created since
                  \* the latest deleteMany, which removed n messages
    ops,          \* client events handled so far
    faults,       \* store operations failed so far
    out           \* the events the last step emitted, in order:
                  \* <<[ev, to, data, tk, hs]>>, tk the task that emitted
                  \* (or NoTask), hs the handshake answered (or NoHandshake)

vars == <<users, messages, now, ensure, conn, tasks, bcastPending, bcastReady,
          unhandled, cleared, ops, faults, out>>

\* Object.entries(VALID_USERS), in insertion order.
Entries == <<"betu", "puchu">>

NoHandshake == [id |-> Falsy, password |-> Falsy]

\* A task: the arguments and locals of an async function (kind, c .. res) and
\* history fields the properties read (was .. clr):
\*   was   the display name stored for the profile when the handler started
\*   base  the profile's list of the handler's kind when the handler started
\*   pre, post  that list right before and right after the handler's write
\*   dirty another task wrote to the store since the handler started
\*   snap  collection User as the handler's read saw it
\*   clr   `cleared` as the handler's read of the messages saw it
\*   sent  the events the handler has emitted so far
NoTask ==
    [kind |-> "none", c |-> 0, pc |-> "", type |-> "", id |-> <<>>, text |-> "",
     name |-> <<>>, old |-> <<>>, ts |-> 0, doc |-> NoDoc, res |-> <<>>,
     was |-> <<>>, base |-> <<>>, pre |-> <<>>, post |-> <<>>, dirty |-> FALSE,
     snap |-> <<>>, clr |-> [st |-> "no", n |-> 0], sent |-> 0]

NoConn == [st |-> "idle", hs |-> NoHandshake, user |-> NoUser]

Init ==
    /\ users = <<>>
    /\ messages = <<>>
    /\ now = 0
    /\ ensure = [pc |-> "find", i |-> 1]
    /\ conn = [c \in Conns |-> NoConn]
    /\ tasks = [s \in Slots |-> NoTask]
    /\ bcastPending = 0
    /\ bcastReady = {}
    /\ unhandled = FALSE
    /\ cleared = [st |-> "no", n |-> 0]
    /\ ops = 0
    /\ faults = 0
    /\ out = <<>>

OpenConns == {c \in Conns : conn[c].st = "open"}

\* One emitted event.
Event(ev, to, data, tk) == [ev |-> ev, to |-> to, data |-> data, tk |-> tk, hs |-> NoHandshake]

\* next(new Error(msg)): the handshake is refused and the socket discarded.
Refuse(c, hs, msg) ==
    <<[ev |-> "connect_error", to |-> {c}, data |-> msg, tk |-> NoTask, hs |-> hs]>>

\* ------------------------------------------------------ ensureDefaultUsers
\* `const exists = await User.findOne({ id }).exec(); if (!exists) ...`
EnsureFind ==
    /\ ensure.pc = "find"
    /\ ensure' = IF FindOne(users, Entries[ensure.i]) = NoDoc
                 THEN [ensure EXCEPT !.pc = "create"]
                 ELSE IF ensure.i = Len(Entries) THEN [ensure EXCEPT !.pc = "done"]
                 ELSE [ensure EXCEPT !.i = @ + 1]
    /\ out' = <<>>
    /\ UNCHANGED <<users, messages, now, conn, tasks, bcastPending, bcastReady,
                   unhandled, cleared, ops, faults>>

\* User.create under the schema's `id: { unique: true }`: a second document
\* with an id already stored is rejected (duplicate key).
CanCreate(coll, id) == Matching(coll, id) = {}

\* `await User.create({...})`; a rejection ends the loop in the .catch of
\* line 82.
EnsureCreate ==
    /\ ensure.pc = "create"
    /\ IF ~CanCreate(users, Entries[ensure.i])
       THEN /\ ensure' = [ensure EXCEPT !.pc = "failed"]
            /\ users' = users
       ELSE /\ users' = Append(users,
                   NewUserDoc(Entries[ensure.i], VALID_USERS[Entries[ensure.i]],
                              DefaultUsername(Entries[ensure.i])))
            /\ ensure' = IF ensure.i = Len(Entries) THEN [ensure EXCEPT !.pc = "done"]
                         ELSE [pc |-> "find", i |-> ensure.i + 1]
    /\ out' = <<>>
    /\ UNCHANGED <<messages, now, conn, tasks, bcastPending, bcastReady,
                   unhandled, cleared, ops, faults>>

\* ---------------------------------------------- auth middleware, connection
\* The async IIFE of the connection handler, before its first await.
InitTask(c) == [NoTask EXCEPT !.kind = "init", !.c = c, !.pc = "user"]

\* A handshake arrives: the synchronous part of the middleware.
Connect(c, id, password) ==
    /\ conn[c].st = "idle"
    /\ IF CredentialsOk(id, password)
       THEN /\ conn' = [conn EXCEPT ![c] =
                   [NoConn EXCEPT !.st = "authFind", !.hs = [id |-> id, password |-> password]]]
            /\ out' = <<>>
       ELSE /\ conn' = conn
            /\ out' = Refuse(c, [id |-> id, password |-> password], "Authentication failed")
    /\ UNCHANGED <<users, messages, now, ensure, tasks, bcastPending, bcastReady,
                   unhandled, cleared, ops, faults>>

\* `socket.user = user; return next();` the socket is connected and the
\* connection handler runs.
Accept(cn, doc) == [cn EXCEPT !.st = "open", !.user = [id |-> doc.id, username |-> doc.username]]

\* `let user = await User.findOne({ id }).exec();`
AuthFind(c) ==
    /\ conn[c].st = "authFind"
    /\ LET user == FindOne(users, conn[c].hs.id) IN
       IF user = NoDoc
       THEN /\ conn' = [conn EXCEPT ![c].st = "authCreate"]
            /\ tasks' = tasks
       ELSE /\ conn' = [conn EXCEPT ![c] = Accept(@, user)]
            /\ tasks' = [tasks EXCEPT ![c] = InitTask(c)]
    /\ out' = <<>>
    /\ UNCHANGED <<users, messages, now, ensure, bcastPending, bcastReady,
                   unhandled, cleared, ops, faults>>

\* `user = await User.create({ id, password, username: id, dares: [], truths: [] });`
\* A rejection is caught at line 101: next(new Error("Authentication error")).
AuthCreate(c) ==
    /\ conn[c].st = "authCreate"
    /\ LET doc == NewUserDoc(conn[c].hs.id, conn[c].hs.password, <<conn[c].hs.id>>) IN
       IF ~CanCreate(users, conn[c].hs.id)
       THEN /\ conn' = [conn EXCEPT ![c] = NoConn]
            /\ out' = Refuse(c, conn[c].hs, "Authentication error")
            /\ UNCHANGED <<users, tasks>>
       ELSE /\ users' = Append(users, doc)
            /\ conn' = [conn EXCEPT ![c] = Accept(@, doc)]
            /\ tasks' = [tasks EXCEPT ![c] = InitTask(c)]
            /\ out' = <<>>
    /\ UNCHANGED <<messages, now, ensure, bcastPending, bcastReady,
                   unhandled, cleared, ops, faults>>

\* Mutant of Disconnect: the handler does not call broadcastUserList().
DisconnectSilently(c) ==
    /\ conn[c].st = "open"
    /\ conn' = [conn EXCEPT ![c].st = "closed"]
    /\ out' = <<>>
    /\ UNCHANGED <<users, messages, now, ensure, tasks, bcastPending, bcastReady,
                   unhandled, cleared, ops, faults>>

\* `socket.on('disconnect', () => { broadcastUserList(); })`
Disconnect(c) ==
    /\ conn[c].st = "open"
    /\ conn' = [conn EXCEPT ![c].st = "closed"]
    /\ bcastPending' = bcastPending + 1
    /\ out' = <<>>
    /\ UNCHANGED <<users, messages, now, ensure, tasks, bcastReady,
                   unhandled, cleared, ops, faults>>

\* -------------------------------------------------------- broadcastUserList
\* Mutant of Roster: the documents are sent whole but for the password.
RosterWithLists(coll) ==
    [i \in DOMAIN coll |-> [id |-> coll[i].id, username |-> coll[i].username,
                            dares |-> coll[i].dares, truths |-> coll[i].truths]]

\* `users.map(u => ({ id: u.id, username: u.username }))`
Roster(coll) == [i \in DOMAIN coll |-> [id |-> coll[i].id, username |-> coll[i].username]]

\* `const users = await User.find({}, 'id username').lean().exec();`
BroadcastRead ==
    /\ bcastPending > 0
    /\ bcastPending' = bcastPending - 1
    /\ bcastReady' = bcastReady \cup {Roster(users)}
    /\ out' = <<>>
    /\ UNCHANGED <<users, messages, now, ensure, conn, tasks, unhandled, cleared,
                   ops, faults>>

\* `io.emit('userList', userList);`
BroadcastEmit(r) ==
    /\ r \in bcastReady
    /\ bcastReady' = bcastReady \ {r}
    /\ out' = <<Event("userList", OpenConns, r, NoTask)>>
    /\ UNCHANGED <<users, messages, now, ensure, conn, tasks, bcastPending,
                   unhandled, cleared, ops, faults>>

\* ------------------------------------------------------- store operations
ListOf(doc, type) == IF type = "dare" THEN doc.dares ELSE doc.truths

WithList(doc, type, list) ==
    IF type = "dare" THEN [doc EXCEPT !.dares = list] ELSE [doc EXCEPT !.truths = list]

\* updateOne: the first document matching the filter is replaced by `doc`.
ReplaceFirst(coll, id, doc) ==
    [i \in DOMAIN coll |-> IF i = Min(Matching(coll, id) \cup {Len(coll) + 1}) THEN doc ELSE coll[i]]

\* Mutant of Push: the pushed element loses its text.
PushDropsText(list, item) == Append(list, [item EXCEPT !.text = ""])

\* Mutant of Push: the list is written back from a copy read before the last
\* element was added, so that element is lost.
PushOverwrites(list, item) ==
    IF list = <<>> THEN <<item>> ELSE [list EXCEPT ![Len(list)] = item]

\* `{ $push: { dares: dare } }`
Push(list, item) == Append(list, item)

ItemIdIsNot(item, id) == item.id # id

\* `{ $pull: { dares: { id } } }`: every element with that id goes.
Pull(list, id) == SelectSeq(list, LAMBDA item : ItemIdIsNot(item, id))

\* Mutant of SetText: an upsert, which adds the element when none has the id.
SetTextUpsert(list, id, newText) ==
    IF Matching(list, id) = {} THEN Append(list, [id |-> id, text |-> newText])
    ELSE [i \in DOMAIN list |->
            IF i = Min(Matching(list, id)) THEN [list[i] EXCEPT !.text = newText] ELSE list[i]]

\* `{ id: socket.user.id, 'dares.id': id }, { $set: { 'dares.$.text': newText } }`:
\* the positional operator is the first element with that id.
SetText(list, id, newText) ==
    [i \in DOMAIN list |->
        IF i = Min(Matching(list, id) \cup {Len(list) + 1})
        THEN [list[i] EXCEPT !.text = newText] ELSE list[i]]

\* Mutant of OtherUsers: the filter is missing.
AllUsers(coll, id) == coll

\* `{ id: { $ne: socket.user.id } }`
OtherUsers(coll, id) == SelectSeq(coll, LAMBDA u : u.id # id)

\* `Message.updateMany({ username: oldName }, { $set: { username: trimmed } })`
RenameMessages(msgs, oldName, trimmed) ==
    [i \in DOMAIN msgs |->
        IF msgs[i].username = oldName THEN [msgs[i] EXCEPT !.username = trimmed] ELSE msgs[i]]

\* Mutant of DeleteMany: deleteOne, which removes the first document only.
DeleteOne(msgs) == IF msgs = <<>> THEN <<>> ELSE Tail(msgs)

\* `Message.deleteMany({})`
DeleteMany(msgs) == <<>>

\* Mutant of InsertByTimestamp: the documents stay in insertion order.
InsertAtEnd(sorted, m) == Append(sorted, m)

\* `.sort({ timestamp: 1 })`: ascending; documents with equal timestamps stay
\* in insertion order.
InsertByTimestamp(sorted, m) ==
    LET k == Cardinality({i \in DOMAIN sorted : sorted[i].timestamp <= m.timestamp}) IN
    SubSeq(sorted, 1, k) \o <<m>> \o SubSeq(sorted, k + 1, Len(sorted))

RECURSIVE SortByTimestamp(_)
SortByTimestamp(msgs) ==
    IF msgs = <<>> THEN <<>>
    ELSE InsertByTimestamp(SortByTimestamp(SubSeq(msgs, 1, Len(msgs) - 1)), msgs[Len(msgs)])

\* `(u.dares || []).forEach(d => allItems.push({ text: d.text, owner: u.username }))`
\* and the same for u.truths.
ItemsOf(u) ==
    [i \in DOMAIN u.dares |-> [text |-> u.dares[i].text, owner |-> u.username]]
    \o [i \in DOMAIN u.truths |-> [text |-> u.truths[i].text, owner |-> u.username]]

RECURSIVE AllItems(_)
AllItems(us) == IF us = <<>> THEN <<>> ELSE ItemsOf(Head(us)) \o AllItems(Tail(us))

\* ---------------------------------------------------------- event handlers
\* Mutant of Prof: one `user` shared by all sockets instead of socket.user.
ProfOfFirstSocket(c) == conn[1].user.id

\* socket.user.id
Prof(c) == conn[c].user.id

FreeSlots == {s \in HandlerSlots : tasks[s] = NoTask}

\* An event arrives on an open socket (the bounds cap events and handlers).
CanStart(c) ==
    /\ conn[c].st = "open"
    /\ ops < MaxOps
    /\ FreeSlots # {}

\* A handler runs to its first await.
Spawn(tk) ==
    /\ tasks' = [tasks EXCEPT ![Min(FreeSlots)] =
           [tk EXCEPT !.was = FindOne(users, Prof(tk.c)).username,
                      !.base = ListOf(FindOne(users, Prof(tk.c)), tk.type)]]
    /\ ops' = ops + 1
    /\ out' = <<>>

ItemKinds == {"add", "deleteItem", "editItem"}

\* What a step wrote: nothing, a profile's list of one type, a profile's
\* display name, or the messages.
Nothing == [what |-> "", id |-> ""]

WroteList(id, type) == [what |-> type, id |-> id]

WroteName(id) == [what |-> "name", id |-> id]

WroteMsgs == [what |-> "msgs", id |-> ""]

\* Whether a write `w` of another task is one task t is marked dirty for: a
\* write to the list an item handler has yet to read, or any write to names
\* or messages while an editUsername is in flight.
Touches(t, w) ==
    \/ /\ w.what \in {"dare", "truth"}
       /\ t.kind \in ItemKinds /\ t.pc # "emit"
       /\ t.type = w.what /\ conn[t.c].user.id = w.id
    \/ /\ w.what \in {"name", "msgs"}
       /\ t.kind = "editUsername"

\* Task s takes a step to `tk`, having written `w` to the store.
Advance(s, tk, w) ==
    tasks' = [x \in Slots |->
        IF x = s THEN tk
        ELSE IF tasks[x] # NoTask /\ Touches(tasks[x], w)
             THEN [tasks[x] EXCEPT !.dirty = TRUE]
        ELSE tasks[x]]

\* `const dare = { id: Date.now().toString(), text };` (addTruth alike); the
\* clock has advanced by `adv` since it was last read.
StartAdd(c, type, text, adv) ==
    /\ CanStart(c)
    /\ now + adv <= MaxClock
    /\ now' = now + adv
    /\ Spawn([NoTask EXCEPT !.kind = "add", !.c = c, !.pc = "push", !.type = type,
                            !.id = ToString(now + adv), !.text = text, !.ts = now + adv])
    /\ UNCHANGED <<users, messages, ensure, conn, bcastPending, bcastReady, unhandled,
                   cleared, faults>>

\* `await User.updateOne({ id: socket.user.id }, { $push: { dares: dare } }).exec();`
AddPush(s) ==
    /\ tasks[s].kind = "add" /\ tasks[s].pc = "push"
    /\ LET tk == tasks[s]
           doc == FindOne(users, Prof(tk.c))
           list == Push(ListOf(doc, tk.type), [id |-> tk.id, text |-> tk.text])
       IN /\ users' = IF doc = NoDoc THEN users
                      ELSE ReplaceFirst(users, Prof(tk.c), WithList(doc, tk.type, list))
          /\ Advance(s, [tk EXCEPT !.pc = "read", !.pre = ListOf(doc, tk.type),
                                   !.post = ListOf(FindOne(users', Prof(tk.c)), tk.type)],
                     IF users' # users THEN WroteList(Prof(tk.c), tk.type) ELSE Nothing)
    /\ out' = <<>>
    /\ UNCHANGED <<messages, now, ensure, conn, bcastPending, bcastReady, unhandled,
                   cleared, ops, faults>>

\* deleteItem({ type, id }): with another type the handler only calls
\* broadcastUserList().
StartDelete(c, type, id) ==
    /\ CanStart(c)
    /\ IF type \in {"dare", "truth"}
       THEN /\ Spawn([NoTask EXCEPT !.kind = "deleteItem", !.c = c, !.pc = "pull",
                                    !.type = type, !.id = id])
            /\ bcastPending' = bcastPending
       ELSE /\ bcastPending' = bcastPending + 1
            /\ ops' = ops + 1
            /\ out' = <<>>
            /\ tasks' = tasks
    /\ UNCHANGED <<users, messages, now, ensure, conn, bcastReady, unhandled, cleared,
                   faults>>

\* `await User.updateOne({ id: socket.user.id }, { $pull: { dares: { id } } }).exec();`
DeletePull(s) ==
    /\ tasks[s].kind = "deleteItem" /\ tasks[s].pc = "pull"
    /\ LET tk == tasks[s]
           doc == FindOne(users, Prof(tk.c))
           list == Pull(ListOf(doc, tk.type), tk.id)
       IN /\ users' = IF doc = NoDoc THEN users
                      ELSE ReplaceFirst(users, Prof(tk.c), WithList(doc, tk.type, list))
          /\ Advance(s, [tk EXCEPT !.pc = "read", !.pre = ListOf(doc, tk.type),
                                   !.post = ListOf(FindOne(users', Prof(tk.c)), tk.type)],
                     IF users' # users THEN WroteList(Prof(tk.c), tk.type) ELSE Nothing)
    /\ out' = <<>>
    /\ UNCHANGED <<messages, now, ensure, conn, bcastPending, bcastReady, unhandled,
                   cleared, ops, faults>>

\* editItem({ type, id, newText })
StartEdit(c, type, id, newText) ==
    /\ CanStart(c)
    /\ IF type \in {"dare", "truth"}
       THEN /\ Spawn([NoTask EXCEPT !.kind = "editItem", !.c = c, !.pc = "set",
                                    !.type = type, !.id = id, !.text = newText])
            /\ bcastPending' = bcastPending
       ELSE /\ bcastPending' = bcastPending + 1
            /\ ops' = ops + 1
            /\ out' = <<>>
            /\ tasks' = tasks
    /\ UNCHANGED <<users, messages, now, ensure, conn, bcastReady, unhandled, cleared,
                   faults>>

\* `await User.updateOne({ id: socket.user.id, 'dares.id': id },
\*                       { $set: { 'dares.$.text': newText } }).exec();`
EditSet(s) ==
    /\ tasks[s].kind = "editItem" /\ tasks[s].pc = "set"
    /\ LET tk == tasks[s]
           doc == FindOne(users, Prof(tk.c))
           list == SetText(ListOf(doc, tk.type), tk.id, tk.text)
       IN /\ users' = IF doc = NoDoc THEN users
                      ELSE ReplaceFirst(users, Prof(tk.c), WithList(doc, tk.type, list))
          /\ Advance(s, [tk EXCEPT !.pc = "read", !.pre = ListOf(doc, tk.type),
                                   !.post = ListOf(FindOne(users', Prof(tk.c)), tk.type)],
                     IF users' # users THEN WroteList(Prof(tk.c), tk.type) ELSE Nothing)
    /\ out' = <<>>
    /\ UNCHANGED <<messages, now, ensure, conn, bcastPending, bcastReady, unhandled,
                   cleared, ops, faults>>

\* `const updated = await User.findOne({ id: socket.user.id }).lean().exec();`
\* in addDare, addTruth, deleteItem and editItem.
ReadOwn(s) ==
    /\ tasks[s].kind \in {"add", "deleteItem", "editItem"} /\ tasks[s].pc = "read"
    /\ LET tk == tasks[s]
           doc == FindOne(users, Prof(tk.c))
       IN Advance(s, [tk EXCEPT !.pc = "emit", !.doc = doc, !.res = ListOf(doc, tk.type)],
                  Nothing)
    /\ out' = <<>>
    /\ UNCHANGED <<users, messages, now, ensure, conn, bcastPending, bcastReady,
                   unhandled, cleared, ops, faults>>

OwnEvent(type) == IF type = "dare" THEN "updateOwnDares" ELSE "updateOwnTruths"

\* `socket.emit('updateOwnDares', updated.dares); broadcastUserList();`
\* (`updated.dares` of a missing document throws; the catch logs it).
EmitOwn(s) ==
    /\ tasks[s].kind \in {"add", "deleteItem", "editItem"} /\ tasks[s].pc = "emit"
    /\ LET tk == tasks[s] IN
       IF tk.doc = NoDoc
       THEN /\ out' = <<>>
            /\ bcastPending' = bcastPending
       ELSE /\ out' = <<Event(OwnEvent(tk.type), {tk.c}, tk.res, tk)>>
            /\ bcastPending' = bcastPending + 1
    /\ Advance(s, NoTask, Nothing)
    /\ UNCHANGED <<users, messages, now, ensure, conn, bcastReady, unhandled, cleared,
                   ops, faults>>

\* `Message.create({ username: socket.user.username, message, timestamp: new Date() })`
StartSend(c, body, adv) ==
    /\ CanStart(c)
    /\ now + adv <= MaxClock
    /\ now' = now + adv
    /\ Spawn([NoTask EXCEPT !.kind = "sendMessage", !.c = c, !.pc = "create",
                            !.text = body, !.name = conn[c].user.username,
                            !.ts = now + adv])
    /\ UNCHANGED <<users, messages, ensure, conn, bcastPending, bcastReady, unhandled,
                   cleared, faults>>

\* The store runs the create.
SendCreate(s) ==
    /\ tasks[s].kind = "sendMessage" /\ tasks[s].pc = "create"
    /\ LET tk == tasks[s]
           msgDoc == [username |-> tk.name, message |-> tk.text, timestamp |-> tk.ts]
       IN /\ messages' = Append(messages, msgDoc)
          /\ Advance(s, [tk EXCEPT !.pc = "emit", !.res = <<msgDoc>>], WroteMsgs)
    /\ cleared' = [st |-> "no", n |-> 0]
    /\ out' = <<>>
    /\ UNCHANGED <<users, now, ensure, conn, bcastPending, bcastReady, unhandled, ops,
                   faults>>

\* `io.emit('newMessage', msg);`
SendEmit(s) ==
    /\ tasks[s].kind = "sendMessage" /\ tasks[s].pc = "emit"
    /\ out' = <<Event("newMessage", OpenConns, tasks[s].res[1], tasks[s])>>
    /\ Advance(s, NoTask, Nothing)
    /\ UNCHANGED <<users, messages, now, ensure, conn, bcastPending, bcastReady,
                   unhandled, cleared, ops, faults>>

StartReveal(c) ==
    /\ CanStart(c)
    /\ Spawn([NoTask EXCEPT !.kind = "revealItem", !.c = c, !.pc = "read"])
    /\ UNCHANGED <<users, messages, now, ensure, conn, bcastPending, bcastReady,
                   unhandled, cleared, faults>>

\* `const otherUsers = await User.find({ id: { $ne: socket.user.id } }).lean().exec();`
RevealRead(s) ==
    /\ tasks[s].kind = "revealItem" /\ tasks[s].pc = "read"
    /\ Advance(s, [tasks[s] EXCEPT !.pc = "emit", !.snap = users,
                                   !.res = OtherUsers(users, Prof(tasks[s].c))], Nothing)
    /\ out' = <<>>
    /\ UNCHANGED <<users, messages, now, ensure, conn, bcastPending, bcastReady,
                   unhandled, cleared, ops, faults>>

\* Math.random() returns one of RandomGrain equally likely values
\* r / RandomGrain, r \in RandomValues, of [0, 1).
RandomGrain == 12

RandomValues == 0..(RandomGrain - 1)

\* Mutant of PickIndex: the product is halved before the floor.
PickBiased(r, len) == (r * len) \div (2 * RandomGrain)

\* `Math.floor(Math.random() * allItems.length)` with Math.random() = r / RandomGrain
PickIndex(r, len) == (r * len) \div RandomGrain

\* The rest of the handler; positions of allItems count from 1 here.  With an
\* empty pool nothing is drawn.
RevealEmit(s, r) ==
    /\ tasks[s].kind = "revealItem" /\ tasks[s].pc = "emit"
    /\ LET tk == tasks[s]
           allItems == AllItems(tk.res)
           i == PickIndex(r, Len(allItems)) + 1
       IN IF Len(allItems) > 0
          THEN /\ out' = <<Event("revealResult", {tk.c}, allItems[i].text, tk),
                           Event("revealNotification", OpenConns \ {tk.c},
                                 [username |-> conn[tk.c].user.username,
                                  item |-> allItems[i].text], tk)>>
          ELSE /\ r = 0
               /\ out' = <<Event("revealResult", {tk.c}, Sentinel, tk)>>
    /\ Advance(s, NoTask, Nothing)
    /\ UNCHANGED <<users, messages, now, ensure, conn, bcastPending, bcastReady,
                   unhandled, cleared, ops, faults>>

StartClear(c) ==
    /\ CanStart(c)
    /\ Spawn([NoTask EXCEPT !.kind = "clearChat", !.c = c, !.pc = "delete"])
    /\ UNCHANGED <<users, messages, now, ensure, conn, bcastPending, bcastReady,
                   unhandled, cleared, faults>>

\* `await Message.deleteMany({}).exec();`
ClearDelete(s) ==
    /\ tasks[s].kind = "clearChat" /\ tasks[s].pc = "delete"
    /\ messages' = DeleteMany(messages)
    /\ cleared' = [st |-> "deleted", n |-> Len(messages) - Len(messages')]
    /\ Advance(s, [tasks[s] EXCEPT !.pc = "emit", !.pre = messages],
               IF messages' # messages THEN WroteMsgs ELSE Nothing)
    /\ out' = <<>>
    /\ UNCHANGED <<users, now, ensure, conn, bcastPending, bcastReady, unhandled, ops,
                   faults>>

\* `io.emit('clearChat');`
ClearEmit(s) ==
    /\ tasks[s].kind = "clearChat" /\ tasks[s].pc = "emit"
    /\ out' = <<Event("clearChat", OpenConns, <<>>, tasks[s])>>
    /\ cleared' = IF cleared.st = "no" THEN cleared ELSE [cleared EXCEPT !.st = "done"]
    /\ Advance(s, NoTask, Nothing)
    /\ UNCHANGED <<users, messages, now, ensure, conn, bcastPending, bcastReady,
                   unhandled, ops, faults>>

\* `if (newUsername && newUsername.trim())`: a blank name ends the handler.
StartRename(c, newUsername) ==
    /\ CanStart(c)
    /\ IF newUsername # <<>> /\ Trim(newUsername) # <<>>
       THEN Spawn([NoTask EXCEPT !.kind = "editUsername", !.c = c, !.pc = "user",
                                 !.old = conn[c].user.username,
                                 !.name = Trim(newUsername)])
       ELSE /\ ops' = ops + 1
            /\ out' = <<>>
            /\ tasks' = tasks
    /\ UNCHANGED <<users, messages, now, ensure, conn, bcastPending, bcastReady,
                   unhandled, cleared, faults>>

\* `await User.updateOne({ id: socket.user.id }, { $set: { username: trimmed } }).exec();`
RenameUser(s) ==
    /\ tasks[s].kind = "editUsername" /\ tasks[s].pc = "user"
    /\ LET tk == tasks[s]
           doc == FindOne(users, Prof(tk.c))
       IN /\ users' = IF doc = NoDoc THEN users
                      ELSE ReplaceFirst(users, Prof(tk.c), [doc EXCEPT !.username = tk.name])
          /\ Advance(s, [tk EXCEPT !.pc = "msgs"],
                     IF users' # users THEN WroteName(Prof(tk.c)) ELSE Nothing)
    /\ out' = <<>>
    /\ UNCHANGED <<messages, now, ensure, conn, bcastPending, bcastReady, unhandled,
                   cleared, ops, faults>>

\* `await Message.updateMany({ username: oldName }, ...).exec();` and, when it
\* resolves, `socket.emit('usernameUpdated', trimmed); broadcastUserList();`
RenameMsgs(s) ==
    /\ tasks[s].kind = "editUsername" /\ tasks[s].pc = "msgs"
    /\ messages' = RenameMessages(messages, tasks[s].old, tasks[s].name)
    /\ Advance(s, [tasks[s] EXCEPT !.pc = "find", !.sent = @ + 1],
               IF messages' # messages THEN WroteMsgs ELSE Nothing)
    /\ out' = <<Event("usernameUpdated", {tasks[s].c}, tasks[s].name, tasks[s])>>
    /\ bcastPending' = bcastPending + 1
    /\ UNCHANGED <<users, now, ensure, conn, bcastReady, unhandled, cleared, ops, faults>>

\* `const messages = await Message.find({}).sort({ timestamp: 1 }).lean().exec();`
RenameFind(s) ==
    /\ tasks[s].kind = "editUsername" /\ tasks[s].pc = "find"
    /\ Advance(s, [tasks[s] EXCEPT !.pc = "emit", !.res = SortByTimestamp(messages)], Nothing)
    /\ out' = <<>>
    /\ UNCHANGED <<users, messages, now, ensure, conn, bcastPending, bcastReady,
                   unhandled, cleared, ops, faults>>

\* `io.emit('messagesUpdated', messages);`
RenameEmit(s) ==
    /\ tasks[s].kind = "editUsername" /\ tasks[s].pc = "emit"
    /\ out' = <<Event("messagesUpdated", OpenConns, tasks[s].res, tasks[s])>>
    /\ Advance(s, NoTask, Nothing)
    /\ UNCHANGED <<users, messages, now, ensure, conn, bcastPending, bcastReady,
                   unhandled, cleared, ops, faults>>

StartFresh(c) ==
    /\ CanStart(c)
    /\ Spawn([NoTask EXCEPT !.kind = "requestFreshData", !.c = c, !.pc = "user"])
    /\ UNCHANGED <<users, messages, now, ensure, conn, bcastPending, bcastReady,
                   unhandled, cleared, faults>>

\* `const freshUser = await User.findOne({ id: socket.user.id }).lean().exec();`
\* in the connection handler and in requestFreshData.
SnapshotUser(s) ==
    /\ tasks[s].kind \in {"init", "requestFreshData"} /\ tasks[s].pc = "user"
    /\ Advance(s, [tasks[s] EXCEPT !.pc = "msgs", !.doc = FindOne(users, Prof(tasks[s].c))],
               Nothing)
    /\ out' = <<>>
    /\ UNCHANGED <<users, messages, now, ensure, conn, bcastPending, bcastReady,
                   unhandled, cleared, ops, faults>>

\* `const messages = await Message.find({}).sort({ timestamp: 1 }).lean().exec();`
SnapshotMsgs(s) ==
    /\ tasks[s].kind \in {"init", "requestFreshData"} /\ tasks[s].pc = "msgs"
    /\ Advance(s, [tasks[s] EXCEPT !.pc = "emit", !.res = SortByTimestamp(messages),
                                   !.clr = cleared], Nothing)
    /\ out' = <<>>
    /\ UNCHANGED <<users, messages, now, ensure, conn, bcastPending, bcastReady,
                   unhandled, cleared, ops, faults>>

\* The payload of 'init'.
Snapshot(freshUser, msgs) ==
    [currentUser |-> [id |-> freshUser.id, username |-> freshUser.username],
     dares |-> freshUser.dares, truths |-> freshUser.truths, messages |-> msgs]

\* `socket.emit('init', {...});` and, in the connection handler only,
\* `broadcastUserList();` (`freshUser.id` of a missing document throws; the
\* catch logs it).
SnapshotEmit(s) ==
    /\ tasks[s].kind \in {"init", "requestFreshData"} /\ tasks[s].pc = "emit"
    /\ LET tk == tasks[s] IN
       IF tk.doc = NoDoc
       THEN /\ out' = <<>>
            /\ bcastPending' = bcastPending
       ELSE /\ out' = <<Event("init", {tk.c}, Snapshot(tk.doc, tk.res), tk)>>
            /\ bcastPending' = bcastPending + (IF tk.kind = "init" THEN 1 ELSE 0)
    /\ Advance(s, NoTask, Nothing)
    /\ UNCHANGED <<users, messages, now, ensure, conn, bcastReady, unhandled, cleared,
                   ops, faults>>

\* ----------------------------------------------------------- store failures
\* The store operation a task awaits is rejected; the handler's catch logs
\* the error and the handler ends.
TaskFault(s) ==
    /\ faults < MaxFaults
    /\ tasks[s] # NoTask /\ tasks[s].pc # "emit"
    /\ faults' = faults + 1
    /\ Advance(s, NoTask, Nothing)
    /\ out' = <<>>
    /\ UNCHANGED <<users, messages, now, ensure, conn, bcastPending, bcastReady,
                   unhandled, cleared, ops>>

\* The middleware's findOne or create is rejected: line 101 catches it.
AuthFault(c) ==
    /\ faults < MaxFaults
    /\ conn[c].st \in {"authFind", "authCreate"}
    /\ faults' = faults + 1
    /\ conn' = [conn EXCEPT ![c] = NoConn]
    /\ out' = Refuse(c, conn[c].hs, "Authentication error")
    /\ UNCHANGED <<users, messages, now, ensure, tasks, bcastPending, bcastReady,
                   unhandled, cleared, ops>>

\* A store operation of ensureDefaultUsers is rejected: line 82 catches it.
EnsureFault ==
    /\ faults < MaxFaults
    /\ ensure.pc \in {"find", "create"}
    /\ faults' = faults + 1
    /\ ensure' = [ensure EXCEPT !.pc = "failed"]
    /\ out' = <<>>
    /\ UNCHANGED <<users, messages, now, conn, tasks, bcastPending, bcastReady,
                   unhandled, cleared, ops>>

\* The find of broadcastUserList is rejected: no caller awaits or catches the
\* promise broadcastUserList returns.
BroadcastFault ==
    /\ faults < MaxFaults
    /\ bcastPending > 0
    /\ faults' = faults + 1
    /\ bcastPending' = bcastPending - 1
    /\ unhandled' = TRUE
    /\ out' = <<>>
    /\ UNCHANGED <<users, messages, now, ensure, conn, tasks, bcastReady, cleared, ops>>

\* --------------------------------------------------------- specifications

\* The server starts on an empty store: ensureDefaultUsers races with the
\* first handshakes.

\* Startup, handshakes and the initial snapshot.
StartupSteps ==
    \/ EnsureFind
    \/ EnsureCreate
    \/ \E c \in Conns, id \in HandshakeIds, pw \in HandshakePasswords : Connect(c, id, pw)
    \/ \E c \in Conns : AuthFind(c)
    \/ \E c \in Conns : AuthCreate(c)
    \/ \E c \in Conns : SnapshotUser(c)
    \/ \E c \in Conns : SnapshotMsgs(c)
    \/ \E c \in Conns : SnapshotEmit(c)

RosterSteps ==
    \/ BroadcastRead
    \/ \E r \in bcastReady : BroadcastEmit(r)

ItemSteps ==
    \/ \E c \in Conns, type \in {"dare", "truth"}, text \in Texts, adv \in {0, 1} :
          StartAdd(c, type, text, adv)
    \/ \E s \in HandlerSlots : AddPush(s)
    \/ \E c \in Conns, type \in Types, id \in ItemIds : StartDelete(c, type, id)
    \/ \E s \in HandlerSlots : DeletePull(s)
    \/ \E c \in Conns, type \in Types, id \in ItemIds, text \in NewTexts :
          StartEdit(c, type, id, text)
    \/ \E s \in HandlerSlots : EditSet(s)
    \/ \E s \in HandlerSlots : ReadOwn(s)
    \/ \E s \in HandlerSlots : EmitOwn(s)

AddSteps ==
    \/ \E c \in Conns, type \in {"dare", "truth"}, text \in OwnerTexts, adv \in {0, 1} :
          StartAdd(c, type, text, adv)
    \/ \E s \in HandlerSlots : AddPush(s)
    \/ \E s \in HandlerSlots : ReadOwn(s)
    \/ \E s \in HandlerSlots : EmitOwn(s)

RevealSteps ==
    \/ \E c \in Conns : StartReveal(c)
    \/ \E s \in HandlerSlots : RevealRead(s)
    \/ \E s \in HandlerSlots, r \in RandomValues : RevealEmit(s, r)

RenameSteps ==
    \/ \E c \in Conns, newUsername \in RawNames : StartRename(c, newUsername)
    \/ \E s \in HandlerSlots : RenameUser(s)
    \/ \E s \in HandlerSlots : RenameMsgs(s)
    \/ \E s \in HandlerSlots : RenameFind(s)
    \/ \E s \in HandlerSlots : RenameEmit(s)

SendSteps ==
    \/ \E c \in Conns, body \in Bodies, adv \in {0, 1} : StartSend(c, body, adv)
    \/ \E s \in HandlerSlots : SendCreate(s)
    \/ \E s \in HandlerSlots : SendEmit(s)

ClearSteps ==
    \/ \E c \in Conns : StartClear(c)
    \/ \E s \in HandlerSlots : ClearDelete(s)
    \/ \E s \in HandlerSlots : ClearEmit(s)

\* requestFreshData, and the snapshot tasks of connection handlers.
FreshSteps ==
    \/ \E c \in Conns : StartFresh(c)
    \/ \E s \in Slots : SnapshotUser(s)
    \/ \E s \in Slots : SnapshotMsgs(s)
    \/ \E s \in Slots : SnapshotEmit(s)

FaultSteps ==
    \/ \E s \in Slots : TaskFault(s)
    \/ \E c \in Conns : AuthFault(c)
    \/ EnsureFault
    \/ BroadcastFault

\* The documents ensureDefaultUsers has created once it is done.
SeededUsers ==
    [i \in DOMAIN Entries |->
        NewUserDoc(Entries[i], VALID_USERS[Entries[i]], DefaultUsername(Entries[i]))]

\* Which profile each socket logged in as, Falsy for a socket yet to connect
\* (socket 1 is in as the first profile: the other choice mirrors it).
Bindings == {b \in [Conns -> DOMAIN VALID_USERS \cup {Falsy}] : b[1] = Entries[1]}

\* The server in service: ensureDefaultUsers is done, the sockets bound by b
\* have connected (middleware and initial snapshot finished) and no event has
\* arrived yet.
Serving(b) ==
    /\ users = SeededUsers
    /\ messages = <<>>
    /\ now = 0
    /\ ensure = [pc |-> "done", i |-> Len(Entries)]
    /\ conn = [c \in Conns |->
                 IF b[c] = Falsy THEN NoConn
                 ELSE Accept([NoConn EXCEPT !.hs = [id |-> b[c], password |-> VALID_USERS[b[c]]]],
                             FindOne(SeededUsers, b[c]))]
    /\ tasks = [s \in Slots |-> NoTask]
    /\ bcastPending = 0
    /\ bcastReady = {}
    /\ unhandled = FALSE
    /\ cleared = [st |-> "no", n |-> 0]
    /\ ops = 0
    /\ faults = 0
    /\ out = <<>>

\* Every socket is connected.
InitServing == \E b \in Bindings : (\A c \in Conns : b[c] # Falsy) /\ Serving(b)

\* Some sockets may yet connect.
InitArriving == \E b \in Bindings : Serving(b)

\* A handshake on a seeded store: the middleware finds the profile.
ArrivalSteps ==
    \/ \E c \in Conns, id \in HandshakeIds, pw \in HandshakePasswords : Connect(c, id, pw)
    \/ \E c \in Conns : AuthFind(c)

\* Startup on an empty store, handshakes and initial snapshots.
NextStartup ==
    \/ StartupSteps
    \/ \E c \in Conns : AuthFault(c)
    \/ EnsureFault

SpecStartup == Init /\ [][NextStartup]_vars

\* Sessions adding, editing and deleting items.
NextItems == ItemSteps

SpecItems == InitServing /\ [][NextItems]_vars

\* Sessions adding items, renaming themselves and revealing.
NextReveal ==
    \/ AddSteps
    \/ RenameSteps
    \/ RevealSteps

SpecReveal == InitServing /\ [][NextReveal]_vars

\* Sessions chatting, renaming themselves, clearing the chat, refreshing and
\* leaving.
NextChat ==
    \/ SendSteps
    \/ RenameSteps
    \/ ClearSteps
    \/ FreshSteps
    \/ \E c \in Conns : Disconnect(c)

SpecChat == InitServing /\ [][NextChat]_vars

\* Sockets connecting, chatting, clearing the chat, refreshing and leaving.
NextClear ==
    \/ ArrivalSteps
    \/ SendSteps
    \/ ClearSteps
    \/ FreshSteps
    \/ \E c \in Conns : Disconnect(c)

SpecClear == InitArriving /\ [][NextClear]_vars

\* Sessions renaming themselves, the rosters that follow, and store
\* operations that fail.
NextFaults ==
    \/ RenameSteps
    \/ RosterSteps
    \/ \E s \in HandlerSlots : TaskFault(s)
    \/ BroadcastFault

SpecFaults == InitServing /\ [][NextFaults]_vars

\* The events after which the roster is broadcast, with one payload each where
\* the payload does not reach the roster: sockets connecting and leaving, one
\* dare added, edited or deleted, and renames.
RosterEvents ==
    \/ \E c \in Conns, id \in DOMAIN VALID_USERS : Connect(c, id, VALID_USERS[id])
    \/ \E c \in Conns : Disconnect(c)
    \/ /\ ops < MaxRosterOps
       /\ \/ \E c \in Conns : StartAdd(c, "dare", "t1", 0)
          \/ \E c \in Conns, type \in {"dare", "other"} : StartDelete(c, type, ToString(0))
          \/ \E c \in Conns, type \in {"dare", "other"} : StartEdit(c, type, ToString(0), "t3")
          \/ \E c \in Conns, newUsername \in RawNames : StartRename(c, newUsername)

\* The steps the server takes by itself once those events have arrived: the
\* store runs an operation some async function awaits, or the function goes on.
RosterWork ==
    \/ \E c \in Conns : AuthFind(c)
    \/ \E c \in Conns : SnapshotUser(c)
    \/ \E c \in Conns : SnapshotMsgs(c)
    \/ \E c \in Conns : SnapshotEmit(c)
    \/ \E s \in HandlerSlots : AddPush(s)
    \/ \E s \in HandlerSlots : DeletePull(s)
    \/ \E s \in HandlerSlots : EditSet(s)
    \/ \E s \in HandlerSlots : ReadOwn(s)
    \/ \E s \in HandlerSlots : EmitOwn(s)
    \/ \E s \in HandlerSlots : RenameUser(s)
    \/ \E s \in HandlerSlots : RenameMsgs(s)
    \/ \E s \in HandlerSlots : RenameFind(s)
    \/ \E s \in HandlerSlots : RenameEmit(s)
    \/ RosterSteps

NextRoster == RosterEvents \/ RosterWork

\* Store operations succeed and are answered, and the event loop runs every
\* continuation that is ready: the server's own steps are taken eventually.
SpecRoster == InitArriving /\ [][NextRoster]_vars /\ WF_vars(RosterWork)

\* Lists a profile can hold after some adds, and logs the store can hold after
\* some sends: a message is stamped when its handler starts and inserted when
\* its create runs, so insertion order need not be timestamp order.
StockLists == {<<>>, <<[id |-> ToString(0), text |-> "t1"]>>}

StockMessage(ts) == [username |-> DefaultUsername(Entries[1]), message |-> "hi", timestamp |-> ts]

StockLogs ==
    {<<>>, <<StockMessage(0)>>, <<StockMessage(0), StockMessage(MaxClock)>>,
     <<StockMessage(MaxClock), StockMessage(0)>>}

\* The server in service some time later: the first profile holds dares, the
\* second holds truths, the log holds messages, and no handler is in flight.
InitStocked ==
    \E b \in Bindings, ds \in StockLists, ts \in StockLists, ms \in StockLogs :
        /\ users = [i \in DOMAIN SeededUsers |->
                       IF i = 1 THEN [SeededUsers[i] EXCEPT !.dares = ds]
                       ELSE [SeededUsers[i] EXCEPT !.truths = ts]]
        /\ messages = ms
        /\ now = MaxClock
        /\ ensure = [pc |-> "done", i |-> Len(Entries)]
        /\ conn = [c \in Conns |->
                     IF b[c] = Falsy THEN NoConn
                     ELSE Accept([NoConn EXCEPT !.hs = [id |-> b[c], password |-> VALID_USERS[b[c]]]],
                                 FindOne(SeededUsers, b[c]))]
        /\ tasks = [s \in Slots |-> NoTask]
        /\ bcastPending = 0
        /\ bcastReady = {}
        /\ unhandled = FALSE
        /\ cleared = [st |-> "no", n |-> 0]
        /\ ops = 0
        /\ faults = 0
        /\ out = <<>>

\* Sockets connecting, asking for fresh data and leaving, on a store nothing
\* else writes to.
NextFresh ==
    \/ ArrivalSteps
    \/ FreshSteps
    \/ \E c \in Conns : Disconnect(c)

SpecFresh == InitStocked /\ [][NextFresh]_vars

\* Sessions adding items, and nothing else.
NextAdds == AddSteps

SpecAdds == InitServing /\ [][NextAdds]_vars

\* Sessions adding items, asking for fresh data and revealing, and the
\* rosters that follow: every event that carries list contents or profiles.
NextPrivacy ==
    \/ AddSteps
    \/ FreshSteps
    \/ RevealSteps
    \/ RosterSteps

SpecPrivacy == InitServing /\ [][NextPrivacy]_vars

\* Every step of the server.
Next ==
    \/ StartupSteps
    \/ RosterSteps
    \/ ItemSteps
    \/ RevealSteps
    \/ RenameSteps
    \/ SendSteps
    \/ ClearSteps
    \/ FreshSteps
    \/ FaultSteps
    \/ \E c \in Conns : Disconnect(c)

Spec == Init /\ [][Next]_vars

\* ------------------------------------------------------------- properties
\* The events of the last step.
Emitted == {out[i] : i \in DOMAIN out}

\* The pair is in the static registry.
InRegistry(hs) == hs.id \in DOMAIN VALID_USERS /\ VALID_USERS[hs.id] = hs.password

\* The display name stored for the profile socket c logged in as.
StoredName(c) == FindOne(users, conn[c].user.id).username

\* C1: (as claimed) a handshake whose pair is in the registry is accepted and
\* its 'init' snapshot carries the supplied id; any other handshake is
\* refused and gets no session.  Stated for runs in which no store operation
\* fails for a reason outside the program.
C1_ValidPairAccepted ==
    faults = 0 =>
        /\ \A e \in Emitted : e.ev = "connect_error" => ~InRegistry(e.hs)
        /\ \A e \in Emitted : e.ev = "init" => e.data.currentUser.id = conn[e.tk.c].hs.id
        /\ \A c \in Conns : conn[c].st # "idle" => InRegistry(conn[c].hs)

\* C2: a step of an addDare, addTruth, editItem or deleteItem handler of a
\* session bound to profile p leaves the dares and truths of every other
\* profile unchanged.
C2_OthersListsUnchanged ==
    [][\A s \in HandlerSlots :
          ((tasks'[s].pc # tasks[s].pc \/ tasks'[s].kind # tasks[s].kind)
              /\ (tasks[s].kind \in ItemKinds \/ tasks'[s].kind \in ItemKinds))
          => LET c == IF tasks[s] = NoTask THEN tasks'[s].c ELSE tasks[s].c IN
             /\ Len(users') = Len(users)
             /\ \A i \in DOMAIN users :
                   users[i].id # conn[c].user.id
                   => /\ users'[i].dares = users[i].dares
                      /\ users'[i].truths = users[i].truths]_vars

\* C2 witness: a handler has just changed its own profile's list while another
\* profile holds items.
C2_Witness ==
    \E s \in HandlerSlots :
        /\ tasks[s].kind \in ItemKinds /\ tasks[s].pc = "read"
        /\ tasks[s].post # tasks[s].pre
        /\ \E i \in DOMAIN users :
              /\ users[i].id # conn[tasks[s].c].user.id
              /\ users[i].dares \o users[i].truths # <<>>

\* The item an add handler builds.
AddedItem(tk) == [id |-> tk.id, text |-> tk.text]

\* C3: (as claimed) the array an add handler emits holds exactly one item more
\* than the profile's list held when the handler started, and the added item
\* carries the input text, whatever else is in flight.
C3_OneMoreThanAtStart ==
    \A e \in Emitted :
        e.tk.kind = "add" =>
            /\ Len(e.data) = Len(e.tk.base) + 1
            /\ \E i \in DOMAIN e.data : e.data[i] = AddedItem(e.tk)

\* C3 (amended): the handler's $push appends one item, carrying the input
\* text, to the stored list; the array it emits goes to its own session as
\* updateOwnDares / updateOwnTruths; and if no other handler wrote to that
\* list between the handler's start and its read, the array is the list as it
\* was at the start plus that item.
C3_OneMoreUnlessInterleaved ==
    \A e \in Emitted :
        e.tk.kind = "add" =>
            /\ e.ev = (IF e.tk.type = "dare" THEN "updateOwnDares" ELSE "updateOwnTruths")
            /\ e.to = {e.tk.c}
            /\ e.tk.post = e.tk.pre \o <<AddedItem(e.tk)>>
            /\ ~e.tk.dirty => e.data = e.tk.base \o <<AddedItem(e.tk)>>

\* C3 witness: an add on a list that already held an item reports undisturbed.
C3_Witness ==
    \E e \in Emitted : e.tk.kind = "add" /\ ~e.tk.dirty /\ e.tk.base # <<>>

\* The positions of `list` holding an item with id `id`.
WithId(list, id) == {i \in DOMAIN list : list[i].id = id}

\* `list` without its element at position k.
Without(list, k) == SubSeq(list, 1, k - 1) \o SubSeq(list, k + 1, Len(list))

\* C4: (as claimed) a deleteItem whose id matches an item of the session's
\* list removes exactly one item from the stored list, and (no other handler
\* writing to the list meanwhile) emits the previous list without that item.
C4_DeleteRemovesOne ==
    \A e \in Emitted :
        (e.tk.kind = "deleteItem" /\ WithId(e.tk.pre, e.tk.id) # {}) =>
            /\ Len(e.tk.post) = Len(e.tk.pre) - 1
            /\ ~e.tk.dirty =>
                  \E k \in WithId(e.tk.pre, e.tk.id) : e.data = Without(e.tk.pre, k)

\* C5: an editItem whose id matches no item of the session's list leaves the
\* stored list as it was, and the handler goes on to emit updateOwnDares /
\* updateOwnTruths to its own session, carrying the stored list: the list it
\* found, if no other handler wrote to it before the handler's read.
C5_EditMissingIsNoOp ==
    /\ \A s \in HandlerSlots :
          (tasks[s].kind = "editItem" /\ tasks[s].pc \in {"read", "emit"}
              /\ WithId(tasks[s].pre, tasks[s].id) = {})
          => tasks[s].post = tasks[s].pre
    /\ \A e \in Emitted :
          (e.tk.kind = "editItem" /\ WithId(e.tk.pre, e.tk.id) = {}) =>
              /\ e.ev = (IF e.tk.type = "dare" THEN "updateOwnDares" ELSE "updateOwnTruths")
              /\ e.to = {e.tk.c}
              /\ e.tk.post = e.tk.pre
              /\ ~e.tk.dirty => e.data = e.tk.pre

\* C5 witness: an edit of an id the (non-empty) list does not hold has emitted
\* the list.
C5_Witness ==
    \E e \in Emitted :
        /\ e.tk.kind = "editItem" /\ WithId(e.tk.pre, e.tk.id) = {}
        /\ e.tk.pre # <<>> /\ e.data = e.tk.pre

\* The texts of the items that the documents of `coll` other than p's hold.
TextsIn(list) == {list[k].text : k \in DOMAIN list}

TextsOfOthers(coll, p) ==
    UNION {TextsIn(coll[i].dares) \cup TextsIn(coll[i].truths) :
              i \in {j \in DOMAIN coll : coll[j].id # p}}

TextsOfOwn(coll, p) ==
    UNION {TextsIn(coll[i].dares) \cup TextsIn(coll[i].truths) :
              i \in {j \in DOMAIN coll : coll[j].id = p}}

\* C6: when the profiles other than the requester's hold no item in the
\* handler's read, revealResult carries the sentinel and no
\* revealNotification goes out; otherwise revealResult carries the text of an
\* item one of those other profiles held in that read.
C6_RevealFromOthers ==
    \A e \in Emitted :
        e.ev = "revealResult" =>
            /\ e.to = {e.tk.c}
            /\ IF TextsOfOthers(e.tk.snap, conn[e.tk.c].user.id) = {}
               THEN /\ e.data = Sentinel
                    /\ \A f \in Emitted : f.ev # "revealNotification"
               ELSE e.data \in TextsOfOthers(e.tk.snap, conn[e.tk.c].user.id)

\* C6 witness: a reveal returned another profile's item while the requester
\* held an item of its own with a text no other profile had.
C6_Witness ==
    \E e \in Emitted :
        /\ e.ev = "revealResult" /\ e.data # Sentinel
        /\ TextsOfOwn(e.tk.snap, conn[e.tk.c].user.id)
              \ TextsOfOthers(e.tk.snap, conn[e.tk.c].user.id) # {}

NoRenameInFlight == \A s \in Slots : tasks[s].kind # "editUsername"

\* C7: (as claimed) a revealNotification goes to every connected session but
\* the requester, carries the text revealResult carried, and names the
\* requester by the display name its profile stores at that moment.  Stated
\* for moments at which no editUsername is in flight.
C7_NotificationCurrentName ==
    \A e \in Emitted :
        (e.ev = "revealNotification" /\ NoRenameInFlight) =>
            /\ e.to = OpenConns \ {e.tk.c}
            /\ \E f \in Emitted : f.ev = "revealResult" /\ f.data = e.data.item
            /\ e.data.username = StoredName(e.tk.c)

\* C8: (as claimed) the Message that sendMessage stores and broadcasts to all
\* connected sessions carries the display name the sender's profile stored
\* when the event was handled.
C8_MessageCurrentName ==
    \A e \in Emitted :
        e.ev = "newMessage" =>
            /\ e.to = OpenConns
            /\ e.data = e.tk.res[1]
            /\ e.data.username = e.tk.was

\* C9: (as claimed) when an editUsername with a non-blank name completes, the
\* profile's display name is trim(newName) and no stored Message carries the
\* name the profile stored before the event.  Stated for handlers during
\* which no other handler wrote names or messages, and for a new name that
\* differs from the old.
C9_RenameRewritesHistory ==
    \A e \in Emitted :
        (e.ev = "messagesUpdated" /\ ~e.tk.dirty /\ e.tk.was # e.tk.name) =>
            /\ StoredName(e.tk.c) = e.tk.name
            /\ \A i \in DOMAIN messages : messages[i].username # e.tk.was

\* C10: once a clearChat has run its deleteMany, the stored log is empty until
\* a sendMessage is persisted; the handler emits clearChat to every connected
\* session; and an 'init' snapshot (of a connection or of requestFreshData)
\* that read the log after the handler completed, with no message persisted
\* since its delete, carries messages = [].
C10_ClearEmptiesLog ==
    /\ cleared.st # "no" => messages = <<>>
    /\ \A e \in Emitted : e.ev = "clearChat" => e.to = OpenConns
    /\ \A e \in Emitted :
          (e.ev = "init" /\ e.tk.clr.st = "done") => e.data.messages = <<>>

\* C10 witness: a snapshot taken after a clearChat that removed messages.
C10_Witness ==
    \E e \in Emitted : e.ev = "init" /\ e.tk.clr.st = "done" /\ e.tk.clr.n > 0

\* The pc at which a handler of the given kind awaits its first store
\* operation.
FirstPc(kind) ==
    CASE kind = "add" -> "push"
      [] kind = "deleteItem" -> "pull"
      [] kind = "editItem" -> "set"
      [] kind = "sendMessage" -> "create"
      [] kind = "revealItem" -> "read"
      [] kind = "clearChat" -> "delete"
      [] OTHER -> "user"

\* The async function in slot s has had a store operation of its own run.
Progressed(s) == tasks[s] # NoTask /\ tasks[s].pc # FirstPc(tasks[s].kind)

\* C11: (as claimed) the handlers of one connection run one at a time: no two
\* of them are in flight with each having had a store operation run, since the
\* later of the two would have started its store operations before the
\* earlier one completed.
C11_OneAtATimePerConnection ==
    \A s, t \in Slots :
        (s # t /\ Progressed(s) /\ Progressed(t)) => tasks[s].c # tasks[t].c

\* Two items of one list carry the same id.
HasDuplicateId(list) ==
    \E i, j \in DOMAIN list : i # j /\ list[i].id = list[j].id

\* C14: (as claimed) within each profile's dares and within each profile's
\* truths no two items have the same id.
C14_IdsUniqueWithinList ==
    \A i \in DOMAIN users :
        ~HasDuplicateId(users[i].dares) /\ ~HasDuplicateId(users[i].truths)

\* C12: (as claimed) a handler one of whose store operations fails has
\* emitted no event for the event that triggered it.
C12_FailedHandlerEmitsNothing ==
    [][faults' > faults =>
          \A s \in HandlerSlots :
              (tasks[s] # NoTask /\ tasks'[s] = NoTask) => tasks[s].sent = 0]_vars

\* C13: (as claimed) no failure of a store operation issued while serving
\* connections escapes the error boundaries as an uncaught rejection.
C13_NoUncaughtFailure == ~unhandled

\* The draws r for which the handler picks position i of a pool of len items.
DrawsPicking(i, len) == {r \in RandomValues : PickIndex(r, len) + 1 = i}

\* C15: Math.random() taken as uniform over its RandomGrain values, a reveal
\* whose pool has M > 0 entries picks each entry on the same number of draws,
\* RandomGrain / M of them, whoever owns it and whatever its kind; and a
\* reveal leaves the stored profiles as they are, so an item revealed once is
\* in the pool of the next reveal as before.
C15_RevealIsUniform ==
    /\ [](\A s \in HandlerSlots :
             (tasks[s].kind = "revealItem" /\ tasks[s].pc = "emit"
                 /\ AllItems(tasks[s].res) # <<>>)
             => \A i \in DOMAIN AllItems(tasks[s].res) :
                   Cardinality(DrawsPicking(i, Len(AllItems(tasks[s].res))))
                       * Len(AllItems(tasks[s].res)) = RandomGrain)
    /\ [][\A s \in HandlerSlots :
             (tasks[s].kind = "revealItem" /\ tasks'[s] # tasks[s]) => users' = users]_vars

\* C15 witness: a reveal has drawn from a pool of two or more items of both
\* kinds and picked one that is not the first.
C15_Witness ==
    \E e \in Emitted :
        /\ e.ev = "revealResult"
        /\ Len(AllItems(e.tk.res)) >= 2
        /\ \E u \in DOMAIN e.tk.res : e.tk.res[u].dares # <<>> /\ e.tk.res[u].truths # <<>>
        /\ e.data # AllItems(e.tk.res)[1].text

\* The async function in slot s has yet to call broadcastUserList(): a
\* connection's initial snapshot and the item handlers call it last, and
\* editUsername calls it right after it emits usernameUpdated.
AwaitsRoster(s) ==
    \/ tasks[s].kind \in ItemKinds \cup {"init"}
    \/ tasks[s].kind = "editUsername" /\ tasks[s].sent = 0

\* A userList event is among the events of the last step.
RosterEmitted == \E e \in Emitted : e.ev = "userList"

\* C16: a new connection, a disconnect, an item mutation and a non-blank
\* editUsername each call broadcastUserList(); the store answering, every
\* such call is followed by a userList event, which goes to all sessions
\* connected at that moment and lists the id and username of every stored
\* profile as the roster's read found them; and when editUsername makes its
\* call the profile already stores the new name (no other handler having
\* written a name meanwhile), so that the read that follows finds it.
C16_RosterFollows ==
    /\ [][/\ \A c \in Conns :
                (conn[c].st = "open" /\ conn'[c].st = "closed")
                => bcastPending' = bcastPending + 1
          /\ \A s \in Slots :
                (AwaitsRoster(s) /\ tasks[s] # NoTask /\ tasks'[s] # tasks[s]
                    /\ ~(AwaitsRoster(s))')
                => bcastPending' = bcastPending + 1
          /\ bcastPending' < bcastPending => bcastReady' = bcastReady \cup {Roster(users)}
          /\ \A i \in DOMAIN out' : out'[i].ev = "userList" => out'[i].data \in bcastReady]_vars
    /\ [](\A e \in Emitted :
             e.ev = "userList" =>
                 /\ e.to = OpenConns
                 /\ Len(e.data) = Len(users)
                 /\ \A i \in DOMAIN users : e.data[i].id = users[i].id)
    /\ [](\A e \in Emitted :
             (e.ev = "usernameUpdated" /\ ~e.tk.dirty) => StoredName(e.tk.c) = e.data)
    /\ ((bcastPending > 0 \/ bcastReady # {} \/ \E s \in Slots : AwaitsRoster(s))
           ~> RosterEmitted)

\* C16 witness: a roster carrying a new display name is emitted to a
\* connected session.
C16_Witness ==
    \E e \in Emitted :
        /\ e.ev = "userList" /\ e.to # {}
        /\ \E i \in DOMAIN e.data : e.data[i].username = <<"x">>

\* Timestamps never decrease along ms.
IsAscending(ms) ==
    \A i, j \in DOMAIN ms : i < j => ms[i].timestamp <= ms[j].timestamp

\* ms and ns hold the same documents, each as many times.
SameDocuments(ms, ns) ==
    /\ Len(ms) = Len(ns)
    /\ \A k \in DOMAIN ms :
          Cardinality({i \in DOMAIN ms : ms[i] = ms[k]})
              = Cardinality({i \in DOMAIN ns : ns[i] = ms[k]})

\* C17: on a store nothing else writes to, no step of a requestFreshData
\* handler changes the stored profiles or messages, and every 'init' event,
\* whether a connection's or a requestFreshData's, is the only event of its
\* step, goes to its own session and carries the same function of the store:
\* id, username, dares and truths of the session's profile as stored, and the
\* stored messages in ascending timestamp order.  A repeated request and a
\* fresh connection of the profile hence get the same payload.
C17_FreshDataIsSnapshot ==
    /\ [][\A s \in HandlerSlots :
             (tasks'[s] # tasks[s]
                 /\ (tasks[s].kind = "requestFreshData" \/ tasks'[s].kind = "requestFreshData"))
             => users' = users /\ messages' = messages]_vars
    /\ [](\A e \in Emitted :
             e.ev = "init" =>
                 /\ Len(out) = 1
                 /\ e.to = {e.tk.c}
                 /\ e.tk.kind \in {"init", "requestFreshData"}
                 /\ e.data.currentUser =
                       [id |-> conn[e.tk.c].user.id,
                        username |-> FindOne(users, conn[e.tk.c].user.id).username]
                 /\ e.data.dares = FindOne(users, conn[e.tk.c].user.id).dares
                 /\ e.data.truths = FindOne(users, conn[e.tk.c].user.id).truths
                 /\ IsAscending(e.data.messages)
                 /\ SameDocuments(e.data.messages, messages))

\* C17 witness: a requestFreshData on a store whose log is not in timestamp
\* order and whose profile holds an item is answered.
C17_Witness ==
    \E e \in Emitted :
        /\ e.ev = "init" /\ e.tk.kind = "requestFreshData"
        /\ ~IsAscending(messages)
        /\ e.data.dares \o e.data.truths # <<>>

\* The number of items the profiles of `coll` hold.
RECURSIVE CountItems(_)
CountItems(coll) ==
    IF coll = <<>> THEN 0
    ELSE Len(Head(coll).dares) + Len(Head(coll).truths) + CountItems(Tail(coll))

\* List a is the beginning of list b.
IsPrefix(a, b) == Len(a) <= Len(b) /\ SubSeq(b, 1, Len(a)) = a

\* The add handlers whose $push has yet to run.
PushesOutstanding == {s \in HandlerSlots : tasks[s].kind = "add" /\ tasks[s].pc = "push"}

\* C18: under every interleaving of add handlers, of one profile or of
\* several, each $push appends its item to its owner's list of its kind and
\* changes no other list, no step takes an item out of a list, and the
\* profiles together hold one item for every add whose push has run: once the
\* handlers have completed, each added item is stored once, with its owner.
C18_AddsAreNotLost ==
    /\ [][/\ \A i \in DOMAIN users :
                /\ IsPrefix(users[i].dares, users'[i].dares)
                /\ IsPrefix(users[i].truths, users'[i].truths)
          /\ \A s \in HandlerSlots :
                (tasks[s].kind = "add" /\ tasks[s].pc = "push" /\ tasks'[s].pc = "read")
                => \A i \in DOMAIN users :
                      /\ ListOf(users'[i], tasks[s].type) =
                            IF users[i].id = conn[tasks[s].c].user.id
                            THEN ListOf(users[i], tasks[s].type)
                                     \o <<[id |-> tasks[s].id, text |-> tasks[s].text]>>
                            ELSE ListOf(users[i], tasks[s].type)
                      /\ Len(users'[i].dares) + Len(users'[i].truths)
                            = Len(users[i].dares) + Len(users[i].truths)
                              + (IF users[i].id = conn[tasks[s].c].user.id THEN 1 ELSE 0)]_vars
    /\ [](CountItems(users) = ops - Cardinality(PushesOutstanding))

\* C18 witness: two add handlers of one profile were in flight together, both
\* pushes have run, and the list holds both items.
C18_Witness ==
    \E s, t \in HandlerSlots :
        /\ s # t
        /\ tasks[s].kind = "add" /\ tasks[t].kind = "add"
        /\ tasks[s].pc = "read" /\ tasks[t].pc = "read"
        /\ conn[tasks[s].c].user.id = conn[tasks[t].c].user.id
        /\ tasks[s].c # tasks[t].c
        /\ tasks[s].type = tasks[t].type
        /\ Len(ListOf(FindOne(users, conn[tasks[s].c].user.id), tasks[s].type)) >= 2

\* C19: (as claimed) when a handler emits updateOwnDares / updateOwnTruths to
\* its session, no other add, edit or delete handler of that connection is in
\* flight and no other connection is bound to the session's profile, the array
\* emitted, the last one the session gets, is the list the profile stores.
C19_LastViewIsStored ==
    \A e \in Emitted :
        (/\ e.ev \in {"updateOwnDares", "updateOwnTruths"}
         /\ \A c \in Conns \ {e.tk.c} : conn[c].user.id # conn[e.tk.c].user.id
         /\ \A s \in HandlerSlots : ~(tasks[s].kind \in ItemKinds /\ tasks[s].c = e.tk.c))
        => e.data = ListOf(FindOne(users, conn[e.tk.c].user.id), e.tk.type)

\* The document stored for the profile socket c is bound to, looked up by
\* position so as not to depend on the handlers' own query.
OwnerDoc(c) == users[CHOOSE i \in DOMAIN users : users[i].id = conn[c].user.id]

\* The texts the profiles other than socket c's hold.
ForeignTexts(c) == TextsOfOthers(users, conn[c].user.id)

\* C20: where items are only added, an 'init', updateOwnDares or
\* updateOwnTruths event goes to one session only and the lists it carries
\* are lists its own profile held (beginnings of the lists the profile holds
\* now), 'init' naming that profile; a userList entry has the fields id and
\* username and no other; and what a reveal sends of other profiles' lists is
\* one item text, to the requester as revealResult and to the other sessions
\* inside a revealNotification of fields username and item.
C20_ListsStayPrivate ==
    \A e \in Emitted :
        /\ e.ev = "init" =>
              /\ e.to = {e.tk.c}
              /\ DOMAIN e.data = {"currentUser", "dares", "truths", "messages"}
              /\ e.data.currentUser.id = conn[e.tk.c].user.id
              /\ IsPrefix(e.data.dares, OwnerDoc(e.tk.c).dares)
              /\ IsPrefix(e.data.truths, OwnerDoc(e.tk.c).truths)
        /\ e.ev \in {"updateOwnDares", "updateOwnTruths"} =>
              /\ e.to = {e.tk.c}
              /\ IsPrefix(e.data, IF e.ev = "updateOwnDares" THEN OwnerDoc(e.tk.c).dares
                                  ELSE OwnerDoc(e.tk.c).truths)
        /\ e.ev = "userList" =>
              \A i \in DOMAIN e.data : DOMAIN e.data[i] = {"id", "username"}
        /\ e.ev = "revealResult" =>
              /\ e.to = {e.tk.c}
              /\ e.data \in TextsOfOthers(e.tk.snap, conn[e.tk.c].user.id) \cup {Sentinel}
        /\ e.ev = "revealNotification" =>
              /\ DOMAIN e.data = {"username", "item"}
              /\ e.data.item \in TextsOfOthers(e.tk.snap, conn[e.tk.c].user.id)
        /\ e.ev \in {"init", "updateOwnDares", "updateOwnTruths", "userList",
                     "revealResult", "revealNotification"}

\* C20 witness: a session gets its own non-empty list while another profile,
\* with a session connected, holds an item with a text the session's profile
\* does not hold.
C20_Witness ==
    \E e \in Emitted :
        /\ e.ev \in {"init", "updateOwnDares", "updateOwnTruths"}
        /\ OwnerDoc(e.tk.c).dares \o OwnerDoc(e.tk.c).truths # <<>>
        /\ ForeignTexts(e.tk.c) \ TextsOfOwn(users, conn[e.tk.c].user.id) # {}
        /\ \E c \in OpenConns : conn[c].user.id # conn[e.tk.c].user.id

====
